---- MODULE Spec2Model ----
(***************************************************************************)
(* State-machine model of the EYYE web-app telemetry module                *)
(* (src/webapp/telemetry.js, the current module, lines 1-504): the         *)
(* coalescing event queue, the timer-driven batch flush with best-effort   *)
(* re-queue, the beacon on hide/unload and the visibility-aware dwell      *)
(* engine.                                                                 *)
(*                                                                         *)
(* Time is counted in ticks of half a millisecond, so that Math.round has  *)
(* something to round: a duration of h ticks is h/2 ms.                    *)
(***************************************************************************)
EXTENDS Integers, Sequences, FiniteSets

(***************************************************************************)
(* Program constants, scaled down so that the state space stays finite     *)
(* (telemetry.js has MAX_BATCH_SIZE = 50, VIEW_SEND_STEP_MS = 1200,        *)
(* MAX_DWELL_MS = 120000).  Every property below is stated in terms of the *)
(* names, never of the scaled values.                                      *)
(***************************************************************************)
MAX_BATCH_SIZE == 2

VIEW_SEND_STEP_MS == 1

MAX_DWELL_MS == 1

(* Bounds of the exploration. *)
MaxTime == 4

MaxQueue == 3

MaxInflight == 2

MaxApiQueue == 1

TgUser == 7

(***************************************************************************)
(* JavaScript values.  A nullable number held in the module's state is     *)
(* Null or Num(n).  An argument passed by a caller is a record: a number,  *)
(* null, undefined, NaN (or any non-numeric string) or Infinity.           *)
(***************************************************************************)
Null == <<>>

Num(n) == <<n>>

Val(x) == x[1]

JsNum(n) == [k |-> "num", v |-> n]

JsNull == [k |-> "null", v |-> 0]

JsUndef == [k |-> "undef", v |-> 0]

JsNaN == [k |-> "nan", v |-> 0]

JsInf == [k |-> "inf", v |-> 0]

(* Number(x): null converts to 0, undefined to NaN. *)
NumberOf(x) ==
  IF x.k = "null" THEN JsNum(0)
  ELSE IF x.k = "undef" THEN JsNaN
  ELSE x

IsFinite(n) == n.k = "num"

(* x == null *)
IsNullish(x) == x.k \in {"null", "undef"}

(* A duration of n whole milliseconds, in ticks. *)
Ms(n) == JsNum(2 * n)

(* Math.round of h ticks, in ms: halves round towards +Infinity. *)
MathRound(h) == (h + 1) \div 2

Min(a, b) == IF a < b THEN a ELSE b

Max(a, b) == IF a > b THEN a ELSE b

(* Variant of ClampInt that forgets the upper limit. *)
ClampIntNoUpper(v, lo, hi) ==
  LET n == NumberOf(v)
      r == IF n.k = "num" THEN MathRound(n.v)
           ELSE IF n.k = "inf" THEN hi + 1
           ELSE 0
  IN  IF r < lo THEN lo ELSE r

(* clampInt(v, lo, hi) = clamp(Math.round(Number(v) || 0)); v in ticks.    *)
(* Infinity rounds to itself and is clamped to hi.                         *)
ClampInt(v, lo, hi) ==
  LET n == NumberOf(v)
      r == IF n.k = "num" THEN MathRound(n.v)
           ELSE IF n.k = "inf" THEN hi + 1
           ELSE 0
  IN  IF r < lo THEN lo ELSE IF r > hi THEN hi ELSE r

(* getTgIdFromUrl: raw is the tg_id query parameter (null when absent or   *)
(* empty, a number when it is a numeric string, NaN otherwise).            *)
GetTgIdFromUrl(raw) == IF raw.k = "num" THEN Num(raw.v) ELSE Null

(* !TG_ID is false *)
Truthy(tg) == tg /= Null /\ Val(tg) /= 0

VARIABLES
  TG_ID,                \* Null or Num(n)
  queue,                \* sequence of event objects
  flushTimer,           \* TRUE while the flush timeout is armed
  inflight,             \* batches of the fetches that have not settled, oldest first
  currentCardId,        \* Null or Num(card)
  isVisible,
  lastVisStartPerf,     \* Null or Num(tick)
  accumulatedVisibleMs, \* in ticks
  heartbeatTimer,       \* TRUE while the heartbeat interval is set
  lastSentDwellMs,
  docVisible,           \* document.visibilityState === "visible"
  now,                  \* performance.now(), in ticks
  visibleTicks,         \* history: visible ticks since onCardShown of the current card
  wasHidden,            \* history: a tick passed with the document hidden, same card
  sent,                 \* history: requests to /api/events issued by the last step
  emitted,              \* history: events handed to enqueue by the last step
  settled,              \* history: the fetch the last step settled, if any
  everKnown,            \* history: TG_ID has been truthy at some point
  state,                \* app.js: the state object
  page                  \* app.js: screens, requests, timers, clock and history

vars == <<TG_ID, queue, flushTimer, inflight, currentCardId, isVisible,
          lastVisStartPerf, accumulatedVisibleMs, heartbeatTimer,
          lastSentDwellMs, docVisible, now, visibleTicks,
          wasHidden, sent, emitted, settled, everKnown>>

appVars == <<state, page>>

(* The module's state as one record, as a handler sees it on entry. *)
St ==
  [TG_ID |-> TG_ID, queue |-> queue, flushTimer |-> flushTimer,
   currentCardId |-> currentCardId, isVisible |-> isVisible,
   lastVisStartPerf |-> lastVisStartPerf,
   accumulatedVisibleMs |-> accumulatedVisibleMs,
   heartbeatTimer |-> heartbeatTimer, lastSentDwellMs |-> lastSentDwellMs,
   sent |-> <<>>, emitted |-> <<>>]

(***************************************************************************)
(* The queue and its sending.                                              *)
(***************************************************************************)

(* The first n elements of q (q.slice(0, n)) and the rest. *)
Take(q, n) == SubSeq(q, 1, Min(n, Len(q)))

Drop(q, n) == SubSeq(q, Min(n, Len(q)) + 1, Len(q))

(* The last n elements of q (q.slice(-n)). *)
TakeLast(q, n) == SubSeq(q, Len(q) - Min(n, Len(q)) + 1, Len(q))

(* Number(ev.dwell_ms || 0) *)
NumOr0(d) == IF d = Null THEN 0 ELSE Val(d)

(* scheduleFlush *)
ScheduleFlush(s) ==
  IF s.flushTimer THEN s ELSE [s EXCEPT !.flushTimer = TRUE]

(* The memory limit at the head of enqueue: drops the oldest entries. *)
TrimQueue(q) ==
  IF Len(q) > 3 * MAX_BATCH_SIZE
  THEN SubSeq(q, Len(q) - 3 * MAX_BATCH_SIZE + 1, Len(q))
  ELSE q

(* Index of the last view of card cid in q, 0 when there is none. *)
LastViewIndex(q, cid) ==
  LET S == {i \in 1..Len(q) : q[i].type = "view" /\ q[i].card_id = cid}
  IN  IF S = {} THEN 0 ELSE CHOOSE i \in S : \A j \in S : j <= i

(* The update of a queued view by a new view of the same card (the other  *)
(* fields it refreshes, ts, position, source and extra, are not modelled). *)
Coalesce(ev, event) ==
  [ev EXCEPT !.dwell_ms = IF NumOr0(event.dwell_ms) > NumOr0(@)
                          THEN Num(NumOr0(event.dwell_ms)) ELSE @]

(* Variant of Enqueue without the TG_ID guard. *)
EnqueueAnyUser(s, event) ==
  LET q == TrimQueue(s.queue)
      i == IF event.type = "view" THEN LastViewIndex(q, event.card_id) ELSE 0
  IN  IF i > 0
      THEN ScheduleFlush([s EXCEPT !.queue = [q EXCEPT ![i] = Coalesce(q[i], event)]])
      ELSE ScheduleFlush([s EXCEPT !.queue = Append(q, event)])

(* enqueue(event), event = [type, card_id, dwell_ms] *)
Enqueue(s, event) ==
  IF ~Truthy(s.TG_ID) THEN s
  ELSE
  LET q == TrimQueue(s.queue)
      i == IF event.type = "view" THEN LastViewIndex(q, event.card_id) ELSE 0
  IN  IF i > 0
      THEN ScheduleFlush([s EXCEPT !.queue = [q EXCEPT ![i] = Coalesce(q[i], event)]])
      ELSE ScheduleFlush([s EXCEPT !.queue = Append(q, event)])

(* flushBeaconBestEffort: sendBeacon, or the synchronous XHR when it       *)
(* throws; either way one request with the same payload.                   *)
FlushBeaconBestEffort(s) ==
  IF s.queue = <<>> \/ ~Truthy(s.TG_ID) THEN s
  ELSE [s EXCEPT !.sent = Append(@, [kind |-> "beacon", tg_id |-> Val(s.TG_ID),
                                     events |-> Take(s.queue, MAX_BATCH_SIZE)])]

(***************************************************************************)
(* Canonicalisation.                                                       *)
(***************************************************************************)

(* normalizeCardId *)
NormalizeCardId(cardId) ==
  LET n == NumberOf(cardId) IN IF IsFinite(n) THEN Num(n.v) ELSE Null

(* mapEventTypeForBackend; "null" stands for null *)
MapEventTypeForBackend(eventType) ==
  CASE eventType = "view" -> "view"
    [] eventType = "like" -> "like"
    [] eventType = "dislike" -> "dislike"
    [] eventType \in {"sources_open", "open_source", "click_source"} -> "open_source"
    [] OTHER -> "null"

(* baseEvent(cardId, eventType, position, dwellMs, extra).  Of the event   *)
(* object only type, card_id and dwell_ms are modelled; reason is          *)
(* extra.reason ("null" when the caller passes no extra) and is recorded   *)
(* with the event handed to enqueue.                                       *)
BaseEvent(s, cardId, eventType, dwellMs, reason) ==
  LET cid == NormalizeCardId(cardId)
      backendType == MapEventTypeForBackend(eventType)
      event == [type |-> backendType, card_id |-> Val(cid),
                dwell_ms |-> IF IsNullish(dwellMs) THEN Null
                             ELSE Num(ClampInt(dwellMs, 0, MAX_DWELL_MS))]
  IN  IF cid = Null THEN s
      ELSE IF backendType = "null" THEN s
      ELSE Enqueue([s EXCEPT !.emitted = Append(@, [event |-> event,
                                                    reason |-> reason,
                                                    visible |-> visibleTicks,
                                                    hidden |-> wasHidden])],
                   event)

(***************************************************************************)
(* The dwell engine.                                                       *)
(***************************************************************************)

(* startVisibleWindow *)
StartVisibleWindow(s) ==
  IF s.currentCardId = Null THEN s
  ELSE IF ~s.isVisible THEN s
  ELSE IF s.lastVisStartPerf /= Null THEN s
  ELSE [s EXCEPT !.lastVisStartPerf = Num(now)]

(* Variant of StopVisibleWindow that leaves the window's start in place. *)
StopVisibleWindowKeepsStart(s) ==
  IF s.currentCardId = Null THEN s
  ELSE IF s.lastVisStartPerf = Null THEN s
  ELSE LET delta == now - Val(s.lastVisStartPerf)
       IN  [s EXCEPT !.accumulatedVisibleMs = IF delta > 0 THEN @ + delta ELSE @]

(* stopVisibleWindow *)
StopVisibleWindow(s) ==
  IF s.currentCardId = Null THEN s
  ELSE IF s.lastVisStartPerf = Null THEN s
  ELSE LET delta == now - Val(s.lastVisStartPerf)
       IN  [s EXCEPT !.accumulatedVisibleMs = IF delta > 0 THEN @ + delta ELSE @,
                     !.lastVisStartPerf = Null]

(* getCurrentDwellMs *)
GetCurrentDwellMs(s) ==
  IF s.currentCardId = Null THEN 0
  ELSE ClampInt(JsNum(s.accumulatedVisibleMs
                      + IF s.isVisible /\ s.lastVisStartPerf /= Null
                        THEN now - Val(s.lastVisStartPerf) ELSE 0),
                0, MAX_DWELL_MS)

(* maybeSendView(reason, force) *)
MaybeSendView(s, reason, force) ==
  IF s.currentCardId = Null THEN s
  ELSE LET dwell == GetCurrentDwellMs(s)
       IN  IF ~force /\ dwell < s.lastSentDwellMs + VIEW_SEND_STEP_MS THEN s
           ELSE BaseEvent([s EXCEPT !.lastSentDwellMs = dwell],
                          JsNum(Val(s.currentCardId)), "view", Ms(dwell), reason)

(* startHeartbeat / stopHeartbeat *)
StartHeartbeat(s) == [s EXCEPT !.heartbeatTimer = TRUE]

StopHeartbeat(s) == [s EXCEPT !.heartbeatTimer = FALSE]

(* finalizeCurrentCard(reason, {flushNow}) *)
FinalizeCurrentCard(s, reason, flushNow) ==
  IF s.currentCardId = Null THEN s
  ELSE LET s1 == MaybeSendView(StopVisibleWindow(s), reason, TRUE)
           s2 == IF flushNow THEN FlushBeaconBestEffort(s1) ELSE s1
       IN  StopHeartbeat([s2 EXCEPT !.currentCardId = Null,
                                    !.accumulatedVisibleMs = 0,
                                    !.lastVisStartPerf = Null,
                                    !.lastSentDwellMs = 0])

(* setTgIdInternal *)
SetTgIdInternal(s, newTgId) ==
  LET n == NumberOf(newTgId)
  IN  IF ~IsFinite(n) THEN s ELSE [s EXCEPT !.TG_ID = Num(n.v)]

(* Variant of LogSourcesToggle that logs the closing of the list too. *)
LogSourcesToggleLogsClose(s, cardId, opened, vis) ==
  LET cid == NormalizeCardId(cardId)
      s1 == IF opened /\ cid = s.currentCardId
            THEN LET t == MaybeSendView(StopVisibleWindow(s), "pre_sources_open", TRUE)
                 IN  IF vis THEN StartVisibleWindow([t EXCEPT !.isVisible = TRUE])
                     ELSE t
            ELSE s
  IN  IF s.currentCardId = Null THEN s
      ELSE IF cid = Null THEN s
      ELSE BaseEvent(s1, JsNum(Val(cid)), "sources_open", JsNull,
                     IF opened THEN "sources_list_open" ELSE "sources_list_close")

(* logSourcesToggle(cardId, position, opened, sourcesCount); vis is        *)
(* document.visibilityState === "visible"                                  *)
LogSourcesToggle(s, cardId, opened, vis) ==
  LET cid == NormalizeCardId(cardId)
      s1 == IF opened /\ cid = s.currentCardId
            THEN LET t == MaybeSendView(StopVisibleWindow(s), "pre_sources_open", TRUE)
                 IN  IF vis THEN StartVisibleWindow([t EXCEPT !.isVisible = TRUE])
                     ELSE t
            ELSE s
  IN  IF s.currentCardId = Null THEN s
      ELSE IF cid = Null THEN s
      ELSE IF opened
           THEN BaseEvent(s1, JsNum(Val(cid)), "sources_open", JsNull, "sources_list_open")
           ELSE s1

(* The handler of visibilitychange, nowVisible the new state. *)
OnVisibilityChange(s, nowVisible) ==
  IF nowVisible = s.isVisible THEN s
  ELSE LET s1 == [s EXCEPT !.isVisible = nowVisible]
       IN  IF nowVisible THEN StartVisibleWindow(s1)
           ELSE FlushBeaconBestEffort(
                  MaybeSendView(StopVisibleWindow(s1), "visibility_hidden", TRUE))

(* The handlers of pagehide and beforeunload. *)
OnUnload(s, reason) ==
  FlushBeaconBestEffort(FinalizeCurrentCard(s, reason, TRUE))

(* Variant of CardShown that starts the new session without finalizing the *)
(* previous card.                                                          *)
CardShownNoFinalize(s, tgId, cardId, vis) ==
  LET s1 == IF ~IsNullish(tgId) THEN SetTgIdInternal(s, tgId) ELSE s
      cid == NormalizeCardId(cardId)
      s3 == [s1 EXCEPT !.currentCardId = cid, !.accumulatedVisibleMs = 0,
                       !.lastSentDwellMs = 0, !.lastVisStartPerf = Null,
                       !.isVisible = vis]
  IN  IF cid = Null THEN s1
      ELSE StartHeartbeat(IF vis THEN StartVisibleWindow(s3) ELSE s3)

(* Telemetry.onCardShown(ctx) *)
CardShown(s, tgId, cardId, vis) ==
  LET s1 == IF ~IsNullish(tgId) THEN SetTgIdInternal(s, tgId) ELSE s
      cid == NormalizeCardId(cardId)
      s2 == IF s1.currentCardId /= Null /\ s1.currentCardId /= cid
            THEN FinalizeCurrentCard(s1, "switch_card", FALSE) ELSE s1
      s3 == [s2 EXCEPT !.currentCardId = cid, !.accumulatedVisibleMs = 0,
                       !.lastSentDwellMs = 0, !.lastVisStartPerf = Null,
                       !.isVisible = vis]
  IN  IF cid = Null THEN s1
      ELSE StartHeartbeat(IF vis THEN StartVisibleWindow(s3) ELSE s3)

(* Variant of SwipeNext that sends the view without ending the session. *)
SwipeNextKeepsSession(s, tgId, cardId) ==
  LET s1 == IF ~IsNullish(tgId) THEN SetTgIdInternal(s, tgId) ELSE s
      cid == NormalizeCardId(cardId)
  IN  IF cid = Null THEN s1
      ELSE IF s1.currentCardId = Null THEN s1
      ELSE MaybeSendView(StopVisibleWindow(s1), "swipe_next", TRUE)

(* Telemetry.onSwipeNext(ctx) *)
SwipeNext(s, tgId, cardId) ==
  LET s1 == IF ~IsNullish(tgId) THEN SetTgIdInternal(s, tgId) ELSE s
      cid == NormalizeCardId(cardId)
  IN  IF cid = Null THEN s1
      ELSE IF s1.currentCardId = Null THEN s1
      ELSE FinalizeCurrentCard(s1, "swipe_next", FALSE)

(***************************************************************************)
(* Actions: one per handler or public method.  Each runs to completion     *)
(* (JavaScript's event loop), except flush, which is suspended at its      *)
(* await until the fetch settles.                                          *)
(***************************************************************************)

(* The state a handler leaves behind. *)
Apply(s) ==
  /\ TG_ID' = s.TG_ID
  /\ queue' = s.queue
  /\ flushTimer' = s.flushTimer
  /\ currentCardId' = s.currentCardId
  /\ isVisible' = s.isVisible
  /\ lastVisStartPerf' = s.lastVisStartPerf
  /\ accumulatedVisibleMs' = s.accumulatedVisibleMs
  /\ heartbeatTimer' = s.heartbeatTimer
  /\ lastSentDwellMs' = s.lastSentDwellMs
  /\ sent' = s.sent
  /\ emitted' = s.emitted
  /\ everKnown' = (everKnown \/ Truthy(s.TG_ID))
  /\ UNCHANGED appVars

(* What a handler other than a fetch continuation leaves alone. *)
NoFetch == inflight' = inflight /\ settled' = <<>>

(* The watch-session history is cleared with the session. *)
SessionKept ==
  /\ visibleTicks' = IF currentCardId' = Null THEN 0 ELSE visibleTicks
  /\ wasHidden' = IF currentCardId' = Null THEN FALSE ELSE wasHidden

(* Telemetry.init(options) *)
TelemetryInit(tgId) ==
  /\ Apply(IF ~IsNullish(tgId) THEN SetTgIdInternal(St, tgId) ELSE St)
  /\ NoFetch /\ SessionKept
  /\ UNCHANGED <<docVisible, now>>

(* Telemetry.setTgId(newTgId) *)
SetTgId(tgId) ==
  /\ Apply(SetTgIdInternal(St, tgId))
  /\ NoFetch /\ SessionKept
  /\ UNCHANGED <<docVisible, now>>

(* Telemetry.logEvent(cardId, eventType, options) *)
LogEvent(cardId, eventType, dwellMs) ==
  /\ Apply(BaseEvent(St, cardId, eventType, dwellMs, "null"))
  /\ NoFetch /\ SessionKept
  /\ UNCHANGED <<docVisible, now>>

(* Telemetry.view(cardId, position, dwellMs) *)
View(cardId, dwellMs) ==
  /\ Apply(BaseEvent(St, cardId, "view", dwellMs, "null"))
  /\ NoFetch /\ SessionKept
  /\ UNCHANGED <<docVisible, now>>

(* Telemetry.like(cardId, position) *)
Like(cardId) ==
  /\ Apply(BaseEvent(St, cardId, "like", JsNull, "null"))
  /\ NoFetch /\ SessionKept
  /\ UNCHANGED <<docVisible, now>>

(* Telemetry.dislike(cardId, position) *)
Dislike(cardId) ==
  /\ Apply(BaseEvent(St, cardId, "dislike", JsNull, "null"))
  /\ NoFetch /\ SessionKept
  /\ UNCHANGED <<docVisible, now>>

(* Telemetry.sourcesToggle(cardId, position, opened, sourcesCount) *)
SourcesToggle(cardId, opened) ==
  /\ Apply(LogSourcesToggle(St, cardId, opened, docVisible))
  /\ NoFetch /\ SessionKept
  /\ UNCHANGED <<docVisible, now>>

(* Telemetry.clickSource(cardId, position) *)
ClickSource(cardId) ==
  /\ Apply(LogSourcesToggle(St, cardId, TRUE, docVisible))
  /\ NoFetch /\ SessionKept
  /\ UNCHANGED <<docVisible, now>>

(* Telemetry.onCardShown(ctx) *)
OnCardShown(tgId, cardId) ==
  /\ Apply(CardShown(St, tgId, cardId, docVisible))
  /\ NoFetch
  /\ visibleTicks' = IF NormalizeCardId(cardId) = Null THEN visibleTicks ELSE 0
  /\ wasHidden' = IF NormalizeCardId(cardId) = Null THEN wasHidden ELSE FALSE
  /\ UNCHANGED <<docVisible, now>>

(* Telemetry.onSwipeNext(ctx) *)
OnSwipeNext(tgId, cardId) ==
  /\ Apply(SwipeNext(St, tgId, cardId))
  /\ NoFetch /\ SessionKept
  /\ UNCHANGED <<docVisible, now>>

(* The document changes visibility and the visibilitychange handler runs. *)
VisibilityChange ==
  /\ docVisible' = ~docVisible
  /\ Apply(OnVisibilityChange(St, ~docVisible))
  /\ NoFetch /\ SessionKept
  /\ UNCHANGED now

(* pagehide *)
PageHide ==
  /\ Apply(OnUnload(St, "pagehide"))
  /\ NoFetch /\ SessionKept
  /\ UNCHANGED <<docVisible, now>>

(* beforeunload *)
BeforeUnload ==
  /\ Apply(OnUnload(St, "beforeunload"))
  /\ NoFetch /\ SessionKept
  /\ UNCHANGED <<docVisible, now>>

(* The callback of the heartbeat interval. *)
OnHeartbeat(s) ==
  IF s.currentCardId = Null THEN s
  ELSE IF ~s.isVisible THEN s
  ELSE MaybeSendView(s, "heartbeat", FALSE)

HeartbeatFires ==
  /\ heartbeatTimer
  /\ Apply(OnHeartbeat(St))
  /\ NoFetch /\ SessionKept
  /\ UNCHANGED <<docVisible, now>>

(* Variant of FlushStart that posts the whole queue. *)
FlushStartNoLimit(s) ==
  IF s.queue = <<>> \/ ~Truthy(s.TG_ID) THEN [s EXCEPT !.flushTimer = FALSE]
  ELSE [s EXCEPT !.queue = <<>>,
                 !.flushTimer = FALSE,
                 !.sent = Append(@, [kind |-> "post", tg_id |-> Val(s.TG_ID),
                                     events |-> s.queue])]

(* flush() up to its await: the batch leaves the queue and is posted. *)
FlushStart(s) ==
  IF s.queue = <<>> \/ ~Truthy(s.TG_ID) THEN [s EXCEPT !.flushTimer = FALSE]
  ELSE [s EXCEPT !.queue = Drop(@, MAX_BATCH_SIZE),
                 !.flushTimer = FALSE,
                 !.sent = Append(@, [kind |-> "post", tg_id |-> Val(s.TG_ID),
                                     events |-> Take(s.queue, MAX_BATCH_SIZE)])]

(* The flush timeout fires. *)
FlushTimerFires ==
  /\ flushTimer
  /\ Apply(FlushStart(St))
  /\ inflight' = IF sent' = <<>> THEN inflight ELSE Append(inflight, sent'[1].events)
  /\ settled' = <<>>
  /\ SessionKept
  /\ UNCHANGED <<docVisible, now>>

(* inflight without its i-th fetch *)
Settle(i) ==
  SubSeq(inflight, 1, i - 1) \o SubSeq(inflight, i + 1, Len(inflight))

(* The i-th fetch resolves (whatever the HTTP status): flush returns. *)
FetchResolves(i) ==
  /\ inflight' = Settle(i)
  /\ settled' = <<[ok |-> TRUE, batch |-> inflight[i]]>>
  /\ Apply(St)
  /\ SessionKept
  /\ UNCHANGED <<docVisible, now>>

(* Variant of Requeue that puts the batch back at the tail. *)
RequeueAtTail(q, batch) == q \o TakeLast(batch, MAX_BATCH_SIZE)

(* The catch block of flush: the batch goes back to the head of the queue. *)
Requeue(q, batch) == TakeLast(batch, MAX_BATCH_SIZE) \o q

(* The i-th fetch rejects. *)
FetchRejects(i) ==
  /\ inflight' = Settle(i)
  /\ settled' = <<[ok |-> FALSE, batch |-> inflight[i]]>>
  /\ Apply([St EXCEPT !.queue = Requeue(@, inflight[i])])
  /\ SessionKept
  /\ UNCHANGED <<docVisible, now>>

(* Half a millisecond passes. *)
Tick ==
  /\ now < MaxTime
  /\ now' = now + 1
  /\ visibleTicks' = IF docVisible /\ currentCardId /= Null
                     THEN visibleTicks + 1 ELSE visibleTicks
  /\ wasHidden' = (wasHidden \/ (~docVisible /\ currentCardId /= Null))
  /\ Apply(St)
  /\ NoFetch
  /\ UNCHANGED docVisible

(***************************************************************************)
(* The web app (src/webapp/app.js).  A card is modelled by its id, Null    *)
(* when it has none.  A string is JsStr(i), i an index into the texts the  *)
(* model uses: 0 is "", 1 is "abc", 2 is "42", 3 is "0".                   *)
(***************************************************************************)

(* limit of loadFeed (20 in app.js) and the 250 ms of handleWheel, scaled. *)
limit == 2

WHEEL_LOCK_MS == 2

(* Bounds of the exploration of the app. *)
MaxSubmits == 2

MaxFeedLoads == 3

MaxClock == 5

MaxTimers == 2

JsStr(i) == [k |-> "str", v |-> i]

(* Number(raw) of a string *)
StrToNumber(x) ==
  CASE x.v = 0 -> JsNum(0)
    [] x.v = 1 -> JsNaN
    [] x.v = 2 -> JsNum(42)
    [] OTHER -> JsNum(0)

(* !x is false *)
AppTruthy(x) ==
  CASE x.k = "num" -> x.v /= 0
    [] x.k = "str" -> x.v /= 0
    [] x.k = "inf" -> TRUE
    [] OTHER -> FALSE

(* getTgIdFromLocation: raw is params.get("tg_id") *)
GetTgIdFromLocation(raw) ==
  IF ~AppTruthy(raw) THEN JsNull
  ELSE LET n == StrToNumber(raw)
       IN  IF n.k /= "nan" THEN n ELSE raw

(* resolveTgId: user is Telegram.WebApp.initDataUnsafe.user.id, undefined  *)
(* when the bridge or the user is absent.                                  *)
(* Variant of ResolveTgId that prefers the URL parameter. *)
ResolveTgIdUrlFirst(user, raw) ==
  IF GetTgIdFromLocation(raw) /= JsNull THEN GetTgIdFromLocation(raw) ELSE user

ResolveTgId(user, raw) ==
  IF AppTruthy(user) THEN user ELSE GetTgIdFromLocation(raw)

(* The state object as app.js creates it; cursorMode and nextCursor are    *)
(* the two fields the later draft adds (part_000:1211), which the handlers *)
(* of app.js never touch.                                                  *)
InitialState ==
  [tgId |-> JsNull, onboardingDone |-> FALSE, feedItems |-> <<>>,
   currentIndex |-> 0, loadingFeed |-> FALSE, hasMore |-> TRUE,
   nextOffset |-> 0, seenIds |-> {}, wheelLocked |-> FALSE,
   lastWheelTime |-> 0, cursorMode |-> "cursor", nextCursor |-> Null]

(* Everything around it.  user and raw are the inputs of resolveTgId;      *)
(* screen and step are what showScreen and showOnboardingStep left         *)
(* visible; profile, posts and feedReq are the requests in flight; issued  *)
(* and navs are history of the last step; lastPage is the last successful  *)
(* feed page since the last reset; timers are due times of unlock timers.  *)
InitialPage ==
  [inited |-> FALSE, handlers |-> FALSE, user |-> JsUndef, raw |-> JsNull,
   screen |-> "none", step |-> "none", alerted |-> FALSE,
   telemetryInit |-> FALSE, profile |-> "idle", posts |-> 0, submits |-> 0,
   feedReq |-> <<>>, loads |-> 0, requested |-> {}, issued |-> <<>>,
   answer |-> "none", lastPage |-> <<>>, view |-> "none",
   clock |-> 0, timers |-> <<>>, navs |-> <<>>, lastNav |-> <<>>]

(* The app as one record, as a handler sees it on entry: the history of    *)
(* the last step is empty.                                                 *)
App == [s |-> state,
        p |-> [page EXCEPT !.issued = <<>>, !.navs = <<>>, !.answer = "none"]]

(* showScreen / showOnboardingStep *)
ShowScreen(a, name) == [a EXCEPT !.p.screen = name]

ShowOnboardingStep(a, stepName) == [a EXCEPT !.p.step = stepName]

(* showOnboardingError: alert(message) *)
ShowOnboardingError(a) == [a EXCEPT !.p.alerted = TRUE]

(* apiFetch(path): the request leaves. *)
ApiFetch(a, path) ==
  [a EXCEPT !.p.requested = @ \cup {path}, !.p.issued = Append(@, [path |-> path])]

(* renderEmptyFeed *)
RenderEmptyFeed(a) == [a EXCEPT !.p.view = "empty"]

(* renderCurrentCard: clamps currentIndex (0-based) and shows the card. *)
RenderCurrentCard(a) ==
  IF a.s.feedItems = <<>> THEN RenderEmptyFeed(a)
  ELSE LET i == IF a.s.currentIndex < 0 THEN 0
                ELSE IF a.s.currentIndex >= Len(a.s.feedItems)
                     THEN Len(a.s.feedItems) - 1
                     ELSE a.s.currentIndex
       IN  [a EXCEPT !.s.currentIndex = i, !.p.view = "card"]

(* Variant of LoadFeed without the loadingFeed guard. *)
LoadFeedWhileLoading(a, initial) ==
  IF ~AppTruthy(a.s.tgId) THEN RenderEmptyFeed(a)
  ELSE IF ~initial /\ ~a.s.hasMore THEN a
  ELSE LET a1 == IF initial
                 THEN [a EXCEPT !.s.feedItems = <<>>, !.s.currentIndex = 0,
                                !.s.hasMore = TRUE, !.s.nextOffset = 0,
                                !.s.seenIds = {}, !.p.lastPage = <<>>]
                 ELSE a
           req == [path |-> "/api/feed", initial |-> initial,
                   offset |-> a1.s.nextOffset]
       IN  [a1 EXCEPT !.s.loadingFeed = TRUE,
                      !.p.feedReq = Append(@, req),
                      !.p.loads = @ + 1,
                      !.p.requested = @ \cup {"/api/feed"},
                      !.p.issued = Append(@, req)]

(* loadFeed(initial), up to the request *)
LoadFeed(a, initial) ==
  IF ~AppTruthy(a.s.tgId) THEN RenderEmptyFeed(a)
  ELSE IF a.s.loadingFeed THEN a
  ELSE IF ~initial /\ ~a.s.hasMore THEN a
  ELSE LET a1 == IF initial
                 THEN [a EXCEPT !.s.feedItems = <<>>, !.s.currentIndex = 0,
                                !.s.hasMore = TRUE, !.s.nextOffset = 0,
                                !.s.seenIds = {}, !.p.lastPage = <<>>]
                 ELSE a
           req == [path |-> "/api/feed", initial |-> initial,
                   offset |-> a1.s.nextOffset]
       IN  [a1 EXCEPT !.s.loadingFeed = TRUE,
                      !.p.feedReq = Append(@, req),
                      !.p.loads = @ + 1,
                      !.p.requested = @ \cup {"/api/feed"},
                      !.p.issued = Append(@, req)]

(* loadProfileAndMaybeSkipOnboarding, up to the request *)
LoadProfileAndMaybeSkipOnboarding(a) ==
  IF ~AppTruthy(a.s.tgId) THEN ShowOnboardingError(a)
  ELSE [ApiFetch(a, "/api/profile") EXCEPT !.p.profile = "pending"]

(* Variant of ProfileSettled that opens the feed whenever a body arrives. *)
ProfileSettledFeedOnAnyBody(a, outcome) ==
  LET a1 == [a EXCEPT !.p.profile = outcome]
  IN  IF outcome \in {"onboarded", "not_onboarded"}
      THEN LoadFeed(ShowScreen([a1 EXCEPT !.s.onboardingDone = TRUE], "feed"), TRUE)
      ELSE ShowOnboardingStep(ShowScreen(a1, "onboarding"), "city")

(* The then/catch chain of loadProfileAndMaybeSkipOnboarding.  outcome is  *)
(* "http_error" (resp.ok false), "network_error" (fetch rejects),          *)
(* "bad_json" (resp.json() rejects), "onboarded" (has_onboarding truthy)   *)
(* or "not_onboarded" (has_onboarding falsy or missing).                   *)
ProfileSettled(a, outcome) ==
  LET a1 == [a EXCEPT !.p.profile = outcome]
  IN  IF outcome = "onboarded"
      THEN LoadFeed(ShowScreen([a1 EXCEPT !.s.onboardingDone = TRUE], "feed"), TRUE)
      ELSE ShowOnboardingStep(ShowScreen(a1, "onboarding"), "city")

(* Variant of SubmitOnboardingSettled that gives up when the save failed. *)
SubmitOnboardingSettledStrict(a, outcome) ==
  LET a1 == [a EXCEPT !.p.posts = @ - 1]
  IN  IF outcome = "ok"
      THEN LoadFeed(ShowScreen([a1 EXCEPT !.s.onboardingDone = TRUE], "feed"), TRUE)
      ELSE a1

(* submitOnboarding, up to the request *)
SubmitOnboardingStart(a) ==
  IF ~AppTruthy(a.s.tgId) THEN ShowOnboardingError(a)
  ELSE [ApiFetch(a, "/api/profile/onboarding") EXCEPT !.p.posts = @ + 1,
                                                      !.p.submits = @ + 1]

(* The then/catch of submitOnboarding: outcome is "ok", "http_error" or    *)
(* "network_error"; all three open the feed.                               *)
SubmitOnboardingSettled(a, outcome) ==
  LET a1 == [a EXCEPT !.p.posts = @ - 1]
  IN  LoadFeed(ShowScreen([a1 EXCEPT !.s.onboardingDone = TRUE], "feed"), TRUE)

(* Variant of AppInitialised that goes on without a user id. *)
AppInitialisedAnyUser(a, user, raw) ==
  LET a1 == [a EXCEPT !.s.tgId = ResolveTgId(user, raw),
                      !.p.inited = TRUE, !.p.user = user, !.p.raw = raw]
  IN  [ApiFetch([a1 EXCEPT !.p.telemetryInit = TRUE, !.p.handlers = TRUE],
                "/api/profile")
        EXCEPT !.p.profile = "pending"]

(* init() *)
AppInitialised(a, user, raw) ==
  LET a1 == [a EXCEPT !.s.tgId = ResolveTgId(user, raw),
                      !.p.inited = TRUE, !.p.user = user, !.p.raw = raw]
  IN  IF ~AppTruthy(a1.s.tgId)
      THEN ShowOnboardingError(
             ShowOnboardingStep(ShowScreen(a1, "onboarding"), "city"))
      ELSE LoadProfileAndMaybeSkipOnboarding(
             [a1 EXCEPT !.p.telemetryInit = TRUE, !.p.handlers = TRUE])

(* The app after a handler; the telemetry module is left alone. *)
ApplyApp(a) ==
  /\ state' = a.s
  /\ page' = a.p
  /\ UNCHANGED vars

(* DOMContentLoaded: init runs once. *)
AppInit(user, raw) ==
  /\ ~page.inited
  /\ ApplyApp(AppInitialised(App, user, raw))

(* The response to GET /api/profile arrives. *)
ProfileResponds(outcome) ==
  /\ page.profile = "pending"
  /\ ApplyApp(ProfileSettled(App, outcome))

(* Clicks on the city step: next and skip (cityDraft is not modelled). *)
HandleCityNext ==
  /\ page.handlers /\ page.screen = "onboarding" /\ page.step = "city"
  /\ ApplyApp(ShowOnboardingStep(App, "topics"))

HandleCitySkip ==
  /\ page.handlers /\ page.screen = "onboarding" /\ page.step = "city"
  /\ ApplyApp(ShowOnboardingStep(App, "topics"))

(* Click on the submit button of the topics step. *)
SubmitOnboarding ==
  /\ page.handlers /\ page.screen = "onboarding" /\ page.step = "topics"
  /\ page.submits < MaxSubmits
  /\ ApplyApp(SubmitOnboardingStart(App))

(* The response to POST /api/profile/onboarding arrives. *)
OnboardingResponds(outcome) ==
  /\ page.posts > 0
  /\ ApplyApp(SubmitOnboardingSettled(App, outcome))

(* Variant of AppendNewItems that does not consult seenIds. *)
RECURSIVE AppendAllItems(_, _)
AppendAllItems(a, items) ==
  IF items = <<>> THEN a
  ELSE LET it == Head(items)
       IN  AppendAllItems(
             [a EXCEPT !.s.feedItems = Append(@, it),
                       !.s.seenIds = IF it = Null THEN @ ELSE @ \cup {Val(it)}],
             Tail(items))

(* appendNewItems(items): an item is its id, Null when id == null; the key *)
(* String(id) is the id itself.                                            *)
RECURSIVE AppendNewItems(_, _)
AppendNewItems(a, items) ==
  IF items = <<>> THEN a
  ELSE LET it == Head(items)
           a1 == IF it = Null THEN [a EXCEPT !.s.feedItems = Append(@, it)]
                 ELSE IF Val(it) \notin a.s.seenIds
                      THEN [a EXCEPT !.s.seenIds = @ \cup {Val(it)},
                                     !.s.feedItems = Append(@, it)]
                      ELSE a
       IN  AppendNewItems(a1, Tail(items))

(* Variant of FeedPage that always advances by the number of items. *)
FeedPageIgnoresPointer(a, req, items, more, next) ==
  LET a1 == AppendNewItems(a, items)
      a2 == [a1 EXCEPT !.s.hasMore = Len(items) >= limit,
                       !.s.nextOffset = req.offset + Len(items),
                       !.p.lastPage = <<[offset |-> req.offset, n |-> Len(items),
                                         more |-> more, next |-> next]>>]
      a3 == IF a2.s.feedItems = <<>> THEN RenderEmptyFeed(a2)
            ELSE RenderCurrentCard(a2)
  IN  [a3 EXCEPT !.s.loadingFeed = FALSE]

(* The second then of loadFeed on a parsed body: items is data.items,      *)
(* more is debug.has_more ("true", "false" or "absent" when it is not a    *)
(* boolean), next is debug.next_offset (JsUndef when it is not a number).  *)
FeedPage(a, req, items, more, next) ==
  LET a1 == AppendNewItems(a, items)
      a2 == [a1 EXCEPT !.s.hasMore = IF more = "absent" THEN Len(items) >= limit
                                     ELSE more = "true",
                       !.s.nextOffset = IF next.k = "num" THEN next.v
                                        ELSE req.offset + Len(items),
                       !.p.lastPage = <<[offset |-> req.offset, n |-> Len(items),
                                         more |-> more, next |-> next]>>]
      a3 == IF a2.s.feedItems = <<>> THEN RenderEmptyFeed(a2)
            ELSE RenderCurrentCard(a2)
  IN  [a3 EXCEPT !.s.loadingFeed = FALSE]

(* The then/catch chain of loadFeed for the oldest request in flight:      *)
(* outcome is "ok", "http_error" (resp.ok false), "network_error" (fetch   *)
(* or resp.json() rejects) or "null_body" (the body parses to null or      *)
(* another falsy value: the second then returns at "if (!data) return;").  *)
FeedSettled(a, outcome, items, more, next) ==
  LET req == Head(a.p.feedReq)
      a1 == [a EXCEPT !.p.feedReq = Tail(@), !.p.answer = outcome]
  IN  IF outcome = "ok" THEN FeedPage(a1, req, items, more, next)
      ELSE IF outcome = "null_body" THEN a1
      ELSE [RenderEmptyFeed(a1) EXCEPT !.s.loadingFeed = FALSE]

(* goToNextCard *)
GoToNextCard(a) ==
  IF a.s.feedItems = <<>> THEN a
  ELSE IF a.s.currentIndex < Len(a.s.feedItems) - 1
       THEN LET a1 == RenderCurrentCard([a EXCEPT !.s.currentIndex = @ + 1])
            IN  IF a1.s.currentIndex >= Len(a1.s.feedItems) - 3
                THEN LoadFeed(a1, FALSE) ELSE a1
       ELSE LoadFeed(a, FALSE)

(* goToPrevCard *)
GoToPrevCard(a) ==
  IF a.s.feedItems = <<>> THEN a
  ELSE IF a.s.currentIndex > 0
       THEN RenderCurrentCard([a EXCEPT !.s.currentIndex = @ - 1])
       ELSE a

(* The deltaY branch of handleWheel; a navigation that moves to another   *)
(* card is recorded with its time.                                         *)
WheelNavigation(a, deltaY) ==
  LET b == IF deltaY > 0 THEN GoToNextCard(a)
           ELSE IF deltaY < 0 THEN GoToPrevCard(a)
           ELSE a
  IN  IF b.s.currentIndex /= a.s.currentIndex
      THEN [b EXCEPT !.p.navs = Append(@, a.p.clock),
                     !.p.lastNav = Num(a.p.clock)]
      ELSE b

(* handleWheel(event): deltaY is event.deltaY, a number. *)
HandleWheel(a, deltaY) ==
  IF a.s.wheelLocked /\ a.p.clock - a.s.lastWheelTime < WHEEL_LOCK_MS THEN a
  ELSE WheelNavigation(
         [a EXCEPT !.s.wheelLocked = TRUE, !.s.lastWheelTime = a.p.clock,
                   !.p.timers = Append(@, a.p.clock + WHEEL_LOCK_MS)],
         deltaY)

(* The response to the oldest GET /api/feed arrives. *)
FeedResponds(outcome, items, more, next) ==
  /\ page.feedReq /= <<>>
  /\ ApplyApp(FeedSettled(App, outcome, items, more, next))

(* handleTouchEnd over the threshold: a swipe up or down. *)
SwipeUp ==
  /\ page.handlers /\ page.screen = "feed"
  /\ page.loads < MaxFeedLoads
  /\ ApplyApp(GoToNextCard(App))

SwipeDown ==
  /\ page.handlers /\ page.screen = "feed"
  /\ ApplyApp(GoToPrevCard(App))

(* A wheel event on the card container. *)
Wheel(deltaY) ==
  /\ page.handlers /\ page.screen = "feed"
  /\ page.loads < MaxFeedLoads
  /\ Len(page.timers) < MaxTimers
  /\ ApplyApp(HandleWheel(App, deltaY))

(* The i-th unlock timer fires, at its due time or later. *)
UnlockTimerFires(i) ==
  /\ page.timers[i] <= page.clock
  /\ ApplyApp([App EXCEPT !.s.wheelLocked = FALSE,
                          !.p.timers = SubSeq(@, 1, i - 1) \o SubSeq(@, i + 1, Len(@))])

(* A millisecond of Date.now() passes. *)
ClockTick ==
  /\ page.clock < MaxClock
  /\ ApplyApp([App EXCEPT !.p.clock = @ + 1])

(* The soft refresh of the later draft of goToNextCard (offset mode): on   *)
(* the last card with hasMore false, offset 0 is requested again without   *)
(* resetting seenIds.                                                      *)
SoftRefresh ==
  /\ page.handlers /\ page.screen = "feed"
  /\ page.loads < MaxFeedLoads
  /\ state.feedItems /= <<>>
  /\ state.currentIndex >= Len(state.feedItems) - 1
  /\ ~state.hasMore
  /\ ~state.loadingFeed
  /\ LET req == [path |-> "/api/feed", initial |-> FALSE, offset |-> 0]
     IN  ApplyApp([App EXCEPT !.s.loadingFeed = TRUE,
                              !.p.feedReq = Append(@, req),
                              !.p.loads = @ + 1,
                              !.p.requested = @ \cup {"/api/feed"},
                              !.p.issued = Append(@, req)])

(***************************************************************************)
(* The later draft of the feed (part_000): cursor pagination, loadFeed     *)
(* with options, onDone callbacks.                                         *)
(***************************************************************************)

(* The options of loadFeed(initial, opts). *)
NoOpts ==
  [force |-> FALSE, resetCursor |-> FALSE, forceOffsetZero |-> FALSE,
   onDone |-> FALSE]

(* Variant of LoadFeedCursor that always sends the cursor it holds. *)
LoadFeedCursorKeepsCursor(a, initial, opts) ==
  IF ~AppTruthy(a.s.tgId) THEN RenderEmptyFeed(a)
  ELSE IF a.s.loadingFeed THEN a
  ELSE IF ~initial /\ ~a.s.hasMore /\ ~opts.force THEN a
  ELSE LET a1 == IF initial
                 THEN [a EXCEPT !.s.feedItems = <<>>, !.s.currentIndex = 0,
                                !.s.hasMore = TRUE, !.s.nextOffset = 0,
                                !.s.nextCursor = Null, !.s.seenIds = {}]
                 ELSE a
           req == [path |-> "/api/feed", initial |-> initial,
                   mode |-> a1.s.cursorMode,
                   offset |-> IF a1.s.cursorMode = "cursor" THEN 0
                              ELSE IF opts.forceOffsetZero THEN 0
                              ELSE a1.s.nextOffset,
                   cursor |-> IF a1.s.cursorMode = "cursor" THEN a1.s.nextCursor
                              ELSE Null,
                   opts |-> opts]
       IN  [a1 EXCEPT !.s.loadingFeed = TRUE,
                      !.p.feedReq = Append(@, req),
                      !.p.loads = @ + 1,
                      !.p.requested = @ \cup {"/api/feed"},
                      !.p.issued = Append(@, req)]

(* loadFeed(initial, opts) up to the request; cursor is the cursor         *)
(* parameter of the URL, Null when the URL has none.                       *)
LoadFeedCursor(a, initial, opts) ==
  IF ~AppTruthy(a.s.tgId) THEN RenderEmptyFeed(a)
  ELSE IF a.s.loadingFeed THEN a
  ELSE IF ~initial /\ ~a.s.hasMore /\ ~opts.force THEN a
  ELSE LET a1 == IF initial
                 THEN [a EXCEPT !.s.feedItems = <<>>, !.s.currentIndex = 0,
                                !.s.hasMore = TRUE, !.s.nextOffset = 0,
                                !.s.nextCursor = Null, !.s.seenIds = {}]
                 ELSE a
           req == [path |-> "/api/feed", initial |-> initial,
                   mode |-> a1.s.cursorMode,
                   offset |-> IF a1.s.cursorMode = "cursor" THEN 0
                              ELSE IF opts.forceOffsetZero THEN 0
                              ELSE a1.s.nextOffset,
                   cursor |-> IF a1.s.cursorMode = "cursor" /\ ~opts.resetCursor
                              THEN a1.s.nextCursor ELSE Null,
                   opts |-> opts]
       IN  [a1 EXCEPT !.s.loadingFeed = TRUE,
                      !.p.feedReq = Append(@, req),
                      !.p.loads = @ + 1,
                      !.p.requested = @ \cup {"/api/feed"},
                      !.p.issued = Append(@, req)]

(* Variant of OnDone that advances whatever was added. *)
OnDoneAlwaysAdvances(a, addedCount) ==
  [a EXCEPT !.s.currentIndex = @ + 1]

(* The onDone callback that goToNextCard passes to loadFeed. *)
OnDone(a, addedCount) ==
  IF addedCount > 0
  THEN RenderCurrentCard([a EXCEPT !.s.currentIndex = @ + 1])
  ELSE a

(* The pagination block of the second then: cursor is data.cursor, debug   *)
(* is data.debug; has_more is "true", "false" or "absent", next_offset a   *)
(* number or JsUndef, next_cursor a cursor or Null, mode "cursor",         *)
(* "offset" or "absent".                                                   *)
NextPagePointer(a, items, cursor, debug) ==
  LET a1 == [a EXCEPT !.s.hasMore =
                IF cursor.has_more /= "absent" THEN cursor.has_more = "true"
                ELSE IF debug.has_more /= "absent" THEN debug.has_more = "true"
                ELSE Len(items) >= limit]
  IN  IF cursor.mode = "cursor"
      THEN [a1 EXCEPT !.s.cursorMode = "cursor",
                      !.s.nextCursor = cursor.next_cursor,
                      !.s.nextOffset = IF cursor.next_offset.k = "num"
                                       THEN cursor.next_offset.v ELSE @]
      ELSE IF cursor.mode = "offset"
      THEN [a1 EXCEPT !.s.cursorMode = "offset",
                      !.s.nextCursor = Null,
                      !.s.nextOffset = IF cursor.next_offset.k = "num"
                                       THEN cursor.next_offset.v
                                       ELSE IF debug.next_offset.k = "num"
                                       THEN debug.next_offset.v
                                       ELSE @ + limit]
      ELSE IF cursor.next_cursor /= Null
      THEN [a1 EXCEPT !.s.cursorMode = "cursor",
                      !.s.nextCursor = cursor.next_cursor]
      ELSE IF cursor.next_offset.k = "num"
      THEN [a1 EXCEPT !.s.cursorMode = "offset", !.s.nextCursor = Null,
                      !.s.nextOffset = cursor.next_offset.v]
      ELSE IF debug.next_offset.k = "num"
      THEN [a1 EXCEPT !.s.cursorMode = "offset", !.s.nextCursor = Null,
                      !.s.nextOffset = debug.next_offset.v]
      ELSE IF a1.s.cursorMode = "offset"
      THEN [a1 EXCEPT !.s.nextOffset = @ + limit]
      ELSE a1

(* The second then of loadFeed on a parsed body. *)
FeedPageCursor(a, req, items, cursor, debug) ==
  LET a1 == AppendNewItems(a, items)
      addedCount == Len(a1.s.feedItems) - Len(a.s.feedItems)
      a2 == NextPagePointer(a1, items, cursor, debug)
      a3 == IF a2.s.feedItems = <<>> THEN RenderEmptyFeed(a2)
            ELSE IF req.initial THEN RenderCurrentCard(a2)
            ELSE a2
      a4 == [a3 EXCEPT !.s.loadingFeed = FALSE,
                       !.p.lastPage = <<[added |-> addedCount,
                                         opts |-> req.opts]>>]
  IN  IF req.opts.onDone THEN OnDone(a4, addedCount) ELSE a4

(* The then/catch chain of loadFeed(initial, opts) for the request in      *)
(* flight; outcomes as for FeedSettled.                                    *)
FeedSettledCursor(a, outcome, items, cursor, debug) ==
  LET req == Head(a.p.feedReq)
      a1 == [a EXCEPT !.p.feedReq = Tail(@), !.p.answer = outcome]
  IN  IF outcome = "ok" THEN FeedPageCursor(a1, req, items, cursor, debug)
      ELSE IF outcome = "null_body" THEN a1
      ELSE LET a2 == [RenderEmptyFeed(a1) EXCEPT !.s.loadingFeed = FALSE]
           IN  IF req.opts.onDone THEN OnDone(a2, 0) ELSE a2

(* goToNextCard of the later draft *)
GoToNextCardCursor(a) ==
  IF a.s.feedItems = <<>> THEN a
  ELSE IF a.s.currentIndex < Len(a.s.feedItems) - 1
       THEN LET a1 == RenderCurrentCard([a EXCEPT !.s.currentIndex = @ + 1])
            IN  IF a1.s.currentIndex >= Len(a1.s.feedItems) - 3
                THEN LoadFeedCursor(a1, FALSE, NoOpts) ELSE a1
  ELSE IF a.s.hasMore
       THEN LoadFeedCursor(a, FALSE, [NoOpts EXCEPT !.onDone = TRUE])
  ELSE IF a.s.cursorMode = "cursor"
       THEN LoadFeedCursor(a, FALSE, [NoOpts EXCEPT !.force = TRUE,
                                                    !.resetCursor = TRUE,
                                                    !.onDone = TRUE])
       ELSE LoadFeedCursor(a, FALSE, [NoOpts EXCEPT !.force = TRUE,
                                                    !.forceOffsetZero = TRUE,
                                                    !.onDone = TRUE])

(* The answer to GET /api/profile with has_onboarding truthy, and the      *)
(* answer to the onboarding POST: both end in loadFeed(true).              *)
ProfileRespondsCursor ==
  /\ page.profile = "pending"
  /\ ApplyApp(LoadFeedCursor(
       ShowScreen([App EXCEPT !.p.profile = "onboarded",
                              !.s.onboardingDone = TRUE], "feed"),
       TRUE, NoOpts))

OnboardingRespondsCursor ==
  /\ page.posts > 0
  /\ ApplyApp(LoadFeedCursor(
       ShowScreen([App EXCEPT !.p.posts = @ - 1,
                              !.s.onboardingDone = TRUE], "feed"),
       TRUE, NoOpts))

FeedRespondsCursor(outcome, items, cursor, debug) ==
  /\ page.feedReq /= <<>>
  /\ ApplyApp(FeedSettledCursor(App, outcome, items, cursor, debug))

SwipeUpCursor ==
  /\ page.handlers /\ page.screen = "feed"
  /\ page.loads < MaxFeedLoads
  /\ ApplyApp(GoToNextCardCursor(App))

(***************************************************************************)
(* Inputs and specifications.                                              *)
(***************************************************************************)

(* The tg_id query parameter: absent, numeric, not numeric. *)
UrlParams == {JsNull, JsNum(TgUser), JsNaN}

(* Card ids as a caller passes them. *)
CardArgs == {JsNum(1), JsNum(2), JsUndef}

Init ==
  /\ TG_ID \in {GetTgIdFromUrl(raw) : raw \in UrlParams}
  /\ queue = <<>>
  /\ flushTimer = FALSE
  /\ inflight = <<>>
  /\ currentCardId = Null
  /\ docVisible \in BOOLEAN
  /\ isVisible = docVisible
  /\ lastVisStartPerf = Null
  /\ accumulatedVisibleMs = 0
  /\ heartbeatTimer = FALSE
  /\ lastSentDwellMs = 0
  /\ now = 0
  /\ visibleTicks = 0
  /\ wasHidden = FALSE
  /\ sent = <<>>
  /\ emitted = <<>>
  /\ settled = <<>>
  /\ everKnown = Truthy(TG_ID)
  /\ state = InitialState
  /\ page = InitialPage

(* The dwell engine with its queue and the hide/unload handlers; the      *)
(* flush timer does not fire within the horizon.                           *)
Room == Len(queue) < MaxQueue

Next ==
  \/ \E t \in {JsUndef, JsNum(TgUser)}, c \in CardArgs : OnCardShown(t, c)
  \/ \E c \in CardArgs : OnSwipeNext(JsUndef, c)
  \/ Room /\ \E c \in CardArgs, o \in BOOLEAN : SourcesToggle(c, o)
  \/ Room /\ Like(JsNum(1))
  \/ VisibilityChange
  \/ PageHide
  \/ BeforeUnload
  \/ HeartbeatFires
  \/ Tick

Spec == Init /\ [][Next]_vars

(* The queue under load, no card on screen: logging calls, the tg_id       *)
(* setter, the flush timer, the fetch outcomes and the unload beacon.      *)
NextQueue ==
  \/ \E t \in {JsNum(TgUser), JsNull} : SetTgId(t)
  \/ Like(JsNum(1))
  \/ \E d \in {JsNum(0), JsNum(3)} : View(JsNum(1), d)
  \/ Len(inflight) < MaxInflight /\ FlushTimerFires
  \/ \E i \in 1..Len(inflight) : FetchResolves(i)
  \/ \E i \in 1..Len(inflight) : FetchRejects(i)
  \/ PageHide

InitQueue == Init /\ docVisible = TRUE

SpecQueue == InitQueue /\ [][NextQueue]_vars

(* The public methods on every kind of argument, one event at a time.      *)
TgArgs == {JsUndef, JsNull, JsNum(TgUser), JsNaN}

ApiCardArgs == {JsNum(1), JsNull, JsUndef, JsNaN}

EventTypeArgs == {"view", "like", "dislike", "sources_open", "open_source",
                  "click_source", "impression", "swipe_next"}

(* dwellMs in ticks: absent, negative, fractional, over the limit, not a   *)
(* number, infinite.                                                       *)
DwellArgs == {JsUndef, JsNum(-3), JsNum(-1), JsNum(1),
              JsNum(2 * MAX_DWELL_MS + 3), JsNaN, JsInf}

RoomApi == Len(queue) < MaxApiQueue

NextApi ==
  \/ \E t \in TgArgs : TelemetryInit(t)
  \/ \E t \in TgArgs : SetTgId(t)
  \/ RoomApi /\ \E c \in ApiCardArgs, ty \in EventTypeArgs, d \in {JsUndef, JsInf} : LogEvent(c, ty, d)
  \/ RoomApi /\ \E c \in ApiCardArgs, d \in DwellArgs : View(c, d)
  \/ RoomApi /\ \E c \in ApiCardArgs : Like(c)
  \/ RoomApi /\ \E c \in ApiCardArgs : Dislike(c)
  \/ RoomApi /\ \E c \in ApiCardArgs, o \in BOOLEAN : SourcesToggle(c, o)
  \/ RoomApi /\ \E c \in ApiCardArgs : ClickSource(c)
  \/ \E t \in TgArgs, c \in ApiCardArgs : OnCardShown(t, c)
  \/ \E t \in {JsUndef, JsNum(TgUser)}, c \in ApiCardArgs : OnSwipeNext(t, c)
  \/ VisibilityChange
  \/ PageHide
  \/ BeforeUnload
  \/ HeartbeatFires
  \/ Tick

SpecApi == Init /\ [][NextApi]_vars

(* The app from DOMContentLoaded through profile and onboarding to the     *)
(* first feed load, on every kind of user id.                              *)
UserIds == {JsUndef, JsNum(0), JsNum(TgUser)}

RawParams == {JsNull, JsStr(0), JsStr(1), JsStr(2), JsStr(3)}

ProfileOutcomes ==
  {"http_error", "network_error", "bad_json", "onboarded", "not_onboarded"}

PostOutcomes == {"ok", "http_error", "network_error"}

InitApp == Init /\ TG_ID = Null /\ docVisible = TRUE

NextBoot ==
  \/ \E user \in UserIds, raw \in RawParams : AppInit(user, raw)
  \/ \E o \in ProfileOutcomes : ProfileResponds(o)
  \/ HandleCityNext
  \/ HandleCitySkip
  \/ SubmitOnboarding
  \/ \E o \in PostOutcomes : OnboardingResponds(o)
  \/ \E o \in PostOutcomes : FeedResponds(o, <<Num(1)>>, "true", JsUndef)
  \/ SwipeUp

SpecBoot == InitApp /\ [][NextBoot]_appVars

(* The feed of a known, onboarded user: pages of every shape, swipes. *)
Items == {<<>>, <<Null>>, <<Num(1)>>, <<Num(1), Num(1)>>, <<Num(1), Num(2)>>,
          <<Num(2), Null>>, <<Num(3), Num(1)>>}

MoreFlags == {"absent", "true", "false"}

NextOffsets == {JsUndef, JsNum(0), JsNum(5)}

NextFeed ==
  \/ AppInit(JsNum(TgUser), JsNull)
  \/ \E o \in {"onboarded", "not_onboarded"} : ProfileResponds(o)
  \/ HandleCityNext
  \/ SubmitOnboarding
  \/ OnboardingResponds("ok")
  \/ \E items \in Items, more \in MoreFlags, next \in NextOffsets :
       FeedResponds("ok", items, more, next)
  \/ \E o \in {"http_error", "network_error", "null_body"} :
       FeedResponds(o, <<>>, "absent", JsUndef)
  \/ SwipeUp
  \/ SwipeDown

SpecFeed == InitApp /\ [][NextFeed]_appVars

(* The same with the soft refresh of the later draft. *)
NextFeedRefresh == NextFeed \/ SoftRefresh

SpecFeedRefresh == InitApp /\ [][NextFeedRefresh]_appVars

(* The wheel on a loaded feed: wheel events, unlock timers, the clock. *)
NextWheel ==
  \/ AppInit(JsNum(TgUser), JsNull)
  \/ ProfileResponds("onboarded")
  \/ FeedResponds("ok", <<Num(1), Num(2)>>, "false", JsUndef)
  \/ \E d \in {-1, 0, 1} : Wheel(d)
  \/ \E i \in 1..Len(page.timers) : UnlockTimerFires(i)
  \/ ClockTick

SpecWheel == InitApp /\ [][NextWheel]_appVars

(* The feed of the later draft: answers in cursor and offset mode. *)
CursorAnswers ==
  {[mode |-> m, next_cursor |-> c, has_more |-> h, next_offset |-> JsUndef] :
     m \in {"cursor", "absent"}, c \in {Null, Num(1)}, h \in {"true", "false"}}
  \cup
  {[mode |-> "offset", next_cursor |-> Null, has_more |-> h, next_offset |-> o] :
     h \in {"absent", "false"}, o \in {JsUndef, JsNum(5)}}

DebugAnswers ==
  {[has_more |-> "absent", next_offset |-> JsUndef],
   [has_more |-> "false", next_offset |-> JsNum(1)]}

CursorItems == {<<>>, <<Num(1)>>, <<Num(1), Num(2)>>, <<Num(2), Null>>,
                <<Num(3), Num(1)>>}

NoCursor ==
  [mode |-> "absent", next_cursor |-> Null, has_more |-> "absent",
   next_offset |-> JsUndef]

NoDebug == [has_more |-> "absent", next_offset |-> JsUndef]

NextCursor ==
  \/ AppInit(JsNum(TgUser), JsNull)
  \/ ProfileRespondsCursor
  \/ ProfileResponds("not_onboarded")
  \/ HandleCityNext
  \/ SubmitOnboarding
  \/ OnboardingRespondsCursor
  \/ \E items \in CursorItems, cursor \in CursorAnswers, debug \in DebugAnswers :
       FeedRespondsCursor("ok", items, cursor, debug)
  \/ \E o \in {"http_error", "network_error", "null_body"} :
       FeedRespondsCursor(o, <<>>, NoCursor, NoDebug)
  \/ SwipeUpCursor
  \/ SwipeDown

SpecCursor == InitApp /\ [][NextCursor]_appVars

(***************************************************************************)
(* Properties.                                                             *)
(***************************************************************************)

BackendTypes == {"view", "like", "dislike", "open_source"}

(* The step issued a POST from flush. *)
Posted == sent' /= <<>> /\ sent'[1].kind = "post"

(* C1: every request to /api/events (the POST of flush, the beacon of      *)
(* flushBeaconBestEffort) carries between 1 and MAX_BATCH_SIZE events, and *)
(* a timer-driven flush removes from the queue exactly the events it       *)
(* sends, the first min(MAX_BATCH_SIZE, queue length) in queue order.      *)
C1_Batching ==
  /\ [](\A i \in 1..Len(sent) :
          Len(sent[i].events) >= 1 /\ Len(sent[i].events) <= MAX_BATCH_SIZE)
  /\ [][Posted =>
          /\ Len(sent') = 1
          /\ Len(sent'[1].events) = Min(MAX_BATCH_SIZE, Len(queue))
          /\ sent'[1].events \o queue' = queue]_vars

C1_Witness ==
  /\ sent /= <<>>
  /\ sent[1].kind = "post"
  /\ Len(sent[1].events) = MAX_BATCH_SIZE
  /\ queue /= <<>>

(* C2: the queue never holds more than 3 x MAX_BATCH_SIZE events.          *)
C2_QueueBounded == Len(queue) <= 3 * MAX_BATCH_SIZE

(* The step handed exactly one event to enqueue, a view of a card that the *)
(* queue already holds a view of, with the tg_id known.                    *)
ViewOfQueuedCard ==
  /\ Len(emitted') = 1
  /\ emitted'[1].event.type = "view"
  /\ Truthy(TG_ID')
  /\ LastViewIndex(queue, emitted'[1].event.card_id) > 0

(* C3: a view enqueued while the queue holds a view of the same card       *)
(* creates no entry (the queue length is unchanged) and the existing       *)
(* entry's dwell_ms becomes the maximum of the two, null counting as 0.    *)
C3_Coalescing ==
  [][ViewOfQueuedCard =>
       LET e == emitted'[1].event
           i == LastViewIndex(queue, e.card_id)
       IN  /\ Len(queue') = Len(queue)
           /\ queue'[i].type = "view" /\ queue'[i].card_id = e.card_id
           /\ NumOr0(queue'[i].dwell_ms)
                = Max(NumOr0(queue[i].dwell_ms), NumOr0(e.dwell_ms))]_vars

(* The i-th event of the last step is a view emitted by the dwell engine. *)
DwellView(i) == emitted[i].event.type = "view" /\ emitted[i].reason /= "null"

(* C4: the dwell_ms of a view emitted by the dwell engine is the time the  *)
(* document was visible since onCardShown of the card, rounded and then    *)
(* clamped to MAX_DWELL_MS; hidden time is not counted.                    *)
C4_DwellIsVisibleTime ==
  \A i \in 1..Len(emitted) :
    DwellView(i) =>
      emitted[i].event.dwell_ms
        = Num(Min(MathRound(emitted[i].visible), MAX_DWELL_MS))

C4_Witness ==
  \E i \in 1..Len(emitted) :
    /\ DwellView(i)
    /\ emitted[i].hidden
    /\ emitted[i].visible = 1
    /\ emitted[i].event.dwell_ms = Num(1)
    /\ now >= 3

(* C5: every queued event has a dwell_ms that is null or an integer in     *)
(* [0, MAX_DWELL_MS].                                                      *)
C5_DwellClamped ==
  \A i \in 1..Len(queue) :
    \/ queue[i].dwell_ms = Null
    \/ Val(queue[i].dwell_ms) \in 0..MAX_DWELL_MS

C5_Witness ==
  /\ emitted /= <<>>
  /\ emitted[1].reason = "null"
  /\ emitted[1].event.dwell_ms = Num(MAX_DWELL_MS)
  /\ queue /= <<>>
  /\ queue[Len(queue)] = emitted[1].event

(* C6: as long as no tg_id has been set, logging leaves the queue empty,   *)
(* arms no flush timer and sends no request or beacon.                     *)
C6_UnknownUserNoLogging ==
  ~everKnown =>
    /\ queue = <<>>
    /\ ~flushTimer
    /\ sent = <<>>
    /\ inflight = <<>>

C6_Witness ==
  /\ ~everKnown
  /\ currentCardId /= Null
  /\ emitted /= <<>>

(* The argument is a card id that is not a finite number. *)
BadCard(c) == c.k /= "num"

BadType(ty) ==
  ty \notin {"view", "like", "dislike", "sources_open", "open_source",
             "click_source"}

(* The step is a logging call on a card id or an event type that is        *)
(* rejected.                                                               *)
RejectedCall ==
  \/ \E c \in ApiCardArgs, ty \in EventTypeArgs, d \in {JsUndef, JsInf} :
       (BadCard(c) \/ BadType(ty)) /\ LogEvent(c, ty, d)
  \/ \E c \in ApiCardArgs :
       /\ BadCard(c)
       /\ \/ \E d \in DwellArgs : View(c, d)
          \/ Like(c)
          \/ Dislike(c)
          \/ ClickSource(c)
          \/ \E o \in BOOLEAN : SourcesToggle(c, o)
          \/ \E t \in TgArgs : OnCardShown(t, c)
          \/ \E t \in TgArgs : OnSwipeNext(t, c)

(* The step is a logEvent call of one of the three names of open_source. *)
SourceCall ==
  \E c \in ApiCardArgs, d \in {JsUndef, JsInf} :
    \E ty \in {"sources_open", "open_source", "click_source"} :
      ~BadCard(c) /\ LogEvent(c, ty, d)

(* C7: every queued event has a type in {view, like, dislike, open_source} *)
(* and a finite numeric card_id; sources_open, open_source and             *)
(* click_source are stored as open_source; a logging call with another     *)
(* type, or with a card id that is not a finite number, enqueues nothing   *)
(* and leaves the queue unchanged.                                         *)
C7_Canonical ==
  /\ [](\A i \in 1..Len(queue) :
          queue[i].type \in BackendTypes /\ queue[i].card_id \in Int)
  /\ [][queue' /= queue => ~RejectedCall]_vars
  /\ [][(emitted' = <<>> \/ emitted'[1].event.type /= "open_source")
          => ~SourceCall]_vars

(* C8: when the POST of a batch rejects, the batch is back at the head of  *)
(* the queue in its order, ahead of what was enqueued meanwhile; when it   *)
(* resolves, the queue is left as it is, without the batch that flush      *)
(* removed.                                                                *)
C8_Requeue ==
  [][settled' /= <<>> =>
       IF settled'[1].ok
       THEN queue' = queue
       ELSE queue' = settled'[1].batch \o queue]_vars

C8_Witness ==
  /\ settled /= <<>>
  /\ ~settled[1].ok
  /\ Len(settled[1].batch) < MAX_BATCH_SIZE
  /\ Len(queue) > Len(settled[1].batch)
  /\ SubSeq(queue, 1, Len(settled[1].batch)) = settled[1].batch

(* C9: whenever the queue is non-empty and the tg_id is known, a flush     *)
(* timer is armed or a flush request is in flight.                         *)
C9_FlushPending ==
  (queue /= <<>> /\ Truthy(TG_ID)) => (flushTimer \/ inflight /= <<>>)

(* The step hides the document, or is pagehide or beforeunload, with a     *)
(* card current and the tg_id known.                                       *)
HideOrUnload ==
  /\ currentCardId /= Null
  /\ Truthy(TG_ID)
  /\ \/ docVisible /\ ~docVisible'
     \/ PageHide
     \/ BeforeUnload

(* The forced view of such a step: of the current card, with the visible   *)
(* time so far.                                                            *)
ForcedView ==
  [type |-> "view", card_id |-> Val(currentCardId),
   dwell_ms |-> Num(Min(MathRound(visibleTicks), MAX_DWELL_MS))]

(* C10: on such a step the forced view is handed to enqueue, and every     *)
(* beacon of the step contains the queue entry that holds it (the view of  *)
(* the card, new or coalesced).                                            *)
C10_BeaconHasView ==
  [][HideOrUnload =>
       LET i == LastViewIndex(queue', Val(currentCardId))
       IN  /\ emitted' /= <<>> /\ emitted'[1].event = ForcedView
           /\ i > 0
           /\ NumOr0(queue'[i].dwell_ms) >= NumOr0(ForcedView.dwell_ms)
           /\ sent' /= <<>>
           /\ \A r \in 1..Len(sent') :
                \E j \in 1..Len(sent'[r].events) :
                  sent'[r].events[j] = queue'[i]]_vars

(* The session fields of the dwell engine. *)
Session ==
  <<currentCardId, isVisible, lastVisStartPerf, accumulatedVisibleMs,
    heartbeatTimer, lastSentDwellMs>>

(* The final view of the current card: its visible time so far, rounded    *)
(* and clamped, handed to enqueue with the given reason.                   *)
FinalViewEmitted(reason) ==
  /\ Len(emitted') = 1
  /\ emitted'[1].event = ForcedView
  /\ emitted'[1].reason = reason
  /\ Truthy(TG_ID') =>
       LET i == LastViewIndex(queue', Val(currentCardId))
       IN  /\ i > 0
           /\ NumOr0(queue'[i].dwell_ms) >= NumOr0(ForcedView.dwell_ms)
           /\ Len(queue') <= Len(queue) + 1

(* C11: onCardShown for card B while another card A is current hands a     *)
(* forced view of A with A's final dwell (reason switch_card) to enqueue,  *)
(* and afterwards B is current with accumulated dwell 0 and last-sent      *)
(* dwell 0.                                                                *)
C11_SwitchFinalizes ==
  [][\A t \in {JsUndef, JsNum(TgUser)}, c \in CardArgs :
       (/\ currentCardId /= Null
        /\ NormalizeCardId(c) /= Null
        /\ NormalizeCardId(c) /= currentCardId
        /\ OnCardShown(t, c))
       => /\ FinalViewEmitted("switch_card")
          /\ currentCardId' = NormalizeCardId(c)
          /\ accumulatedVisibleMs' = 0
          /\ lastSentDwellMs' = 0]_vars

C11_Witness ==
  /\ emitted /= <<>>
  /\ emitted[1].reason = "switch_card"
  /\ emitted[1].visible >= 2
  /\ currentCardId /= Null
  /\ Val(currentCardId) /= emitted[1].event.card_id
  /\ queue /= <<>>
  /\ queue[Len(queue)] = emitted[1].event

(* C12: onSwipeNext with a valid card id while a card is current hands one *)
(* forced view of the current card with its final visible dwell to         *)
(* enqueue (a new entry or a coalesced one) and clears the session; with    *)
(* no card current it changes neither the queue nor the session.           *)
C12_SwipeFinalizes ==
  [][\A c \in CardArgs :
       (NormalizeCardId(c) /= Null /\ OnSwipeNext(JsUndef, c))
       => IF currentCardId /= Null
          THEN /\ FinalViewEmitted("swipe_next")
               /\ currentCardId' = Null
               /\ ~heartbeatTimer'
               /\ accumulatedVisibleMs' = 0
               /\ lastSentDwellMs' = 0
               /\ lastVisStartPerf' = Null
          ELSE /\ queue' = queue
               /\ emitted' = <<>>
               /\ Session' = Session]_vars

C12_Witness ==
  /\ emitted /= <<>>
  /\ emitted[1].reason = "swipe_next"
  /\ emitted[1].hidden
  /\ emitted[1].visible >= 1
  /\ currentCardId = Null
  /\ ~heartbeatTimer
  /\ queue /= <<>>

(* The number of open_source events in q. *)
OpenSourceCount(q) == Cardinality({i \in 1..Len(q) : q[i].type = "open_source"})

(* The open_source events handed to enqueue by the step. *)
OpenSourceEmitted ==
  {i \in 1..Len(emitted') : emitted'[i].event.type = "open_source"}

(* C13: sourcesToggle with opened = false enqueues nothing; with opened =  *)
(* true, a card current and a numeric card id it enqueues exactly one       *)
(* open_source event for that card id; with no card current it enqueues    *)
(* nothing.                                                                *)
C13_OnlyOpenLogged ==
  [][\A c \in CardArgs, o \in BOOLEAN :
       SourcesToggle(c, o)
       => IF ~o \/ currentCardId = Null
          THEN queue' = queue /\ emitted' = <<>>
          ELSE c.k = "num"
               => /\ Cardinality(OpenSourceEmitted) = 1
                  /\ \A i \in OpenSourceEmitted :
                       emitted'[i].event.card_id = c.v
                  /\ Truthy(TG_ID)
                       => /\ queue'[Len(queue')]
                               = [type |-> "open_source", card_id |-> c.v,
                                  dwell_ms |-> Null]
                          /\ OpenSourceCount(queue') = OpenSourceCount(queue) + 1]_vars

C13_Witness ==
  /\ Len(emitted) = 2
  /\ emitted[1].reason = "pre_sources_open"
  /\ emitted[2].reason = "sources_list_open"
  /\ emitted[2].event.card_id = Val(currentCardId)
  /\ Len(queue) >= 2
  /\ queue[Len(queue)] = emitted[2].event

(***************************************************************************)
(* The app: start-up, profile routing, onboarding.                         *)
(***************************************************************************)

(* C14: when init resolves no Telegram id, the app shows the error on the  *)
(* onboarding screen, has requested none of /api/profile,                  *)
(* /api/profile/onboarding and /api/feed in this or any later state, and   *)
(* has not initialised telemetry.                                          *)
C14_NoUserNoTraffic ==
  (page.inited /\ ~AppTruthy(state.tgId)) =>
    /\ page.alerted
    /\ page.screen = "onboarding" /\ page.step = "city"
    /\ page.requested = {}
    /\ page.posts = 0 /\ page.feedReq = <<>> /\ page.profile = "idle"
    /\ ~page.telemetryInit

C14_Witness ==
  /\ page.inited
  /\ page.user = JsNum(0) /\ page.raw = JsStr(3)
  /\ state.tgId = JsNum(0)
  /\ page.alerted
  /\ page.requested = {}

(* C19: the Telegram WebApp user id, when truthy, is the resolved id       *)
(* whatever the tg_id parameter; otherwise the parameter is used, as a     *)
(* number when it parses as one ("42", "0") and as the raw string when it  *)
(* does not ("abc"); the id is null when the parameter is absent or empty. *)
C19_UserIdResolution ==
  page.inited =>
    /\ (page.user = JsNum(TgUser)) => state.tgId = JsNum(TgUser)
    /\ (page.user \in {JsUndef, JsNum(0)}) =>
         /\ (page.raw = JsStr(2)) => state.tgId = JsNum(42)
         /\ (page.raw = JsStr(3)) => state.tgId = JsNum(0)
         /\ (page.raw = JsStr(1)) => state.tgId = JsStr(1)
         /\ (page.raw \in {JsNull, JsStr(0)}) => state.tgId = JsNull

C19_Witness ==
  /\ page.inited
  /\ page.user = JsNum(TgUser) /\ page.raw = JsStr(2)
  /\ state.tgId = JsNum(TgUser)
  /\ page.profile = "pending"

InitialFeedRequest == [path |-> "/api/feed", initial |-> TRUE, offset |-> 0]

(* C16: when the answer to POST /api/profile/onboarding arrives, whatever  *)
(* it is, onboardingDone is true and the feed screen is shown, and the     *)
(* initial feed request is issued in that step unless a feed request is    *)
(* already in flight (loadFeed returns early while loadingFeed);           *)
(* onboardingDone never returns to false.                                  *)
C16_OnboardingOpensFeed ==
  /\ [][page'.posts < page.posts =>
          /\ state'.onboardingDone
          /\ page'.screen = "feed"
          /\ state'.loadingFeed
          /\ IF state.loadingFeed THEN page'.issued = <<>>
             ELSE page'.issued = <<InitialFeedRequest>>]_appVars
  /\ [][state.onboardingDone => state'.onboardingDone]_appVars

(* C16 as stated: every answer to the POST starts an initial feed load. *)
C16_AlwaysStartsInitialLoad ==
  /\ [][page'.posts < page.posts =>
          /\ state'.onboardingDone
          /\ page'.screen = "feed"
          /\ page'.issued = <<InitialFeedRequest>>]_appVars
  /\ [][state.onboardingDone => state'.onboardingDone]_appVars

C16_Witness ==
  /\ page.profile = "network_error"
  /\ page.submits = 1 /\ page.posts = 0
  /\ state.onboardingDone
  /\ page.screen = "feed"
  /\ page.feedReq = <<InitialFeedRequest>>

(***************************************************************************)
(* The app: the feed.                                                      *)
(***************************************************************************)

CardIds == {Val(state.feedItems[i]) :
              i \in {j \in 1..Len(state.feedItems) : state.feedItems[j] /= Null}}

(* C17: feedItems never holds two cards with the same non-null id, and     *)
(* seenIds is exactly the set of the ids of the cards in feedItems that    *)
(* have one, after any initial loads, page loads and soft refreshes.       *)
C17_FrontEndDedup ==
  /\ \A i, j \in 1..Len(state.feedItems) :
       (i < j /\ state.feedItems[i] /= Null) =>
         state.feedItems[i] /= state.feedItems[j]
  /\ state.seenIds = CardIds

C17_Witness ==
  /\ Len(state.feedItems) >= 4
  /\ state.seenIds = {1, 2, 3}
  /\ \E i \in 1..Len(state.feedItems) : state.feedItems[i] = Null
  /\ page.lastPage /= <<>> /\ page.lastPage[1].offset = 0
  /\ page.lastPage[1].n = 2
  /\ page.loads = MaxFeedLoads

(* The pointer the backend gave with a page, as C18 states it. *)
PointerOffset(pg) ==
  IF pg.next.k = "num" THEN pg.next.v ELSE pg.offset + pg.n

PointerHasMore(pg) ==
  IF pg.more = "true" THEN TRUE
  ELSE IF pg.more = "false" THEN FALSE
  ELSE pg.n >= limit

C20_WheelDebounce ==
  [][(page'.navs /= <<>> /\ page.lastNav /= Null) =>
       page.clock - Val(page.lastNav) >= WHEEL_LOCK_MS]_appVars

(***************************************************************************)
(* Telemetry: the queue and the requests as a whole.                       *)
(***************************************************************************)

(* C21: in every state the queue holds at most one view event per card,    *)
(* also after a failed flush has put its batch back while a view of the    *)
(* same card was enqueued during the request.                              *)
C21_OneViewPerCard ==
  \A i, j \in 1..Len(queue) :
    (i < j /\ queue[i].type = "view" /\ queue[j].type = "view") =>
      queue[i].card_id /= queue[j].card_id

(* C22: no queued event is transmitted more than once; in particular the   *)
(* requests that one handler sends carry no event in common.               *)
C22_NoDuplicateDelivery ==
  [][\A r1, r2 \in 1..Len(sent') :
       r1 < r2 =>
         \A i \in 1..Len(sent'[r1].events), j \in 1..Len(sent'[r2].events) :
           sent'[r1].events[i] /= sent'[r2].events[j]]_vars

(***************************************************************************)
(* The app: feed requests in flight.                                       *)
(***************************************************************************)

(* The step is the arrival of the answer to a feed request. *)
FeedAnswered == page'.answer /= "none"

(* C23: at most one /api/feed request is in flight, and a step that calls  *)
(* loadFeed while loadingFeed is true (a swipe, or the answer to a second  *)
(* onboarding POST, which calls loadFeed(true)) issues no request and      *)
(* leaves feedItems, hasMore, nextOffset and seenIds alone, and            *)
(* currentIndex too when the call is the initial one.                      *)
C23_OneFeedRequest ==
  /\ [](Len(page.feedReq) <= 1)
  /\ [][(state.loadingFeed /\ ~FeedAnswered) =>
          /\ page'.feedReq = page.feedReq
          /\ \A i \in 1..Len(page'.issued) : page'.issued[i].path /= "/api/feed"
          /\ state'.loadingFeed
          /\ state'.feedItems = state.feedItems
          /\ state'.hasMore = state.hasMore
          /\ state'.nextOffset = state.nextOffset
          /\ state'.seenIds = state.seenIds
          /\ (page'.posts < page.posts =>
                state'.currentIndex = state.currentIndex)]_appVars

C23_Witness ==
  /\ page.submits = 2 /\ page.posts = 0
  /\ state.loadingFeed
  /\ page.loads = 2
  /\ state.feedItems /= <<>>
  /\ page.feedReq = <<[path |-> "/api/feed", initial |-> FALSE, offset |-> 5]>>

(* C24: when the answer to a feed request arrives, whatever it is (HTTP    *)
(* error, network error, any JSON body, null included), loadingFeed is     *)
(* false after the step.                                                   *)
C24_LoadingReleased ==
  [][FeedAnswered => ~state'.loadingFeed]_appVars

(* C25: currentIndex is 0 when feedItems is empty and otherwise lies in    *)
(* 0 .. feedItems.length - 1.                                              *)
C25_IndexInRange ==
  IF state.feedItems = <<>> THEN state.currentIndex = 0
  ELSE state.currentIndex \in 0..(Len(state.feedItems) - 1)

(* C27: when a non-initial feed request fails (HTTP or network error)      *)
(* feedItems, currentIndex, hasMore and nextOffset are unchanged, and with *)
(* a non-empty feed the card stays on display.                             *)
C27_FailedPrefetchKeepsCard ==
  [][(page'.answer \in {"http_error", "network_error"}
        /\ ~page.feedReq[1].initial) =>
       /\ state'.feedItems = state.feedItems
       /\ state'.currentIndex = state.currentIndex
       /\ state'.hasMore = state.hasMore
       /\ state'.nextOffset = state.nextOffset
       /\ (state.feedItems /= <<>> => page'.view = "card")]_appVars

C25_Witness ==
  /\ page.lastPage /= <<>>
  /\ page.lastPage[1].opts.onDone /\ page.lastPage[1].opts.force
  /\ page.lastPage[1].added > 0
  /\ page.answer = "ok"
  /\ state.currentIndex >= 1
  /\ state.currentIndex = Len(state.feedItems) - page.lastPage[1].added

(***************************************************************************)
(* The later draft: cursor paging and the soft refresh.                    *)
(***************************************************************************)

(* The user is on the last card and the backend has said there is no more. *)
AtEndOfFeed ==
  /\ state.feedItems /= <<>>
  /\ state.currentIndex = Len(state.feedItems) - 1
  /\ ~state.hasMore
  /\ ~state.loadingFeed

====
